---------------------------- MODULE Spec2Model ----------------------------
(***************************************************************************)
(* Bionic Reader (src/Untitled-1.py): a Flask upload handler and the       *)
(* client-side script of its page template.                                *)
(*                                                                         *)
(* Text is a sequence of one-character strings.  HTML produced by the      *)
(* script is a sequence whose elements are either one-character strings    *)
(* (text and entity characters) or one of the three markup tokens the      *)
(* script inserts (SpanWord, SpanStrong, SpanEnd).                         *)
(***************************************************************************)
EXTENDS Integers, Sequences, FiniteSets, TLC

VARIABLES
  \* --- bionicWrapText applied as a function (SpecFormat)
  fmtText,          \* argument text
  fmtPercent,       \* argument ratioPercent
  fmtOut,           \* returned HTML
  fmtPc,            \* "init" before the call, "done" after it
  \* --- the server
  files,            \* the file system: resolved path -> stored content
  flashes,          \* session['_flashes']: the messages flash() queued
  response,         \* the last response: [status, location]
  handled,          \* history: the last request and the state it met
  nUploads,         \* number of POST /upload handled so far
  \* --- the last render_template_string(TEMPLATE, raw_text=, filename=)
  raw_text,
  filename,
  \* --- the document in the browser
  page,             \* the HTML the server rendered: [embedded, pre, fname]
  loaded,           \* DOMContentLoaded has fired
  pdfRawText,       \* window._pdfRawText
  fontSize,         \* #fontSize.value
  lineHeight,       \* #lineHeight.value
  bionicIntensity,  \* #bionicIntensity.value
  softToggle,       \* #softToggle.checked
  textContainer,    \* #textContainer.innerHTML
  style,            \* #textContainer.style
  uploadedName,     \* #uploadedName.innerText
  fontSizeLabel,    \* #fontSizeLabel.innerText
  lineHeightLabel,  \* #lineHeightLabel.innerText, in hundredths
  bionicLabel       \* #bionicLabel.innerText, without its '%'

fmtVars == <<fmtText, fmtPercent, fmtOut, fmtPc>>
controlVars == <<fontSize, lineHeight, bionicIntensity, softToggle>>
domVars == <<pdfRawText, textContainer, style, uploadedName, fontSizeLabel,
             lineHeightLabel, bionicLabel>>
clientVars == <<page, loaded, controlVars, domVars>>

tplVars == <<raw_text, filename>>
serverVars == <<files, flashes, response, handled, nUploads>>

vars == <<fmtVars, serverVars, tplVars, clientVars>>

---------------------------------------------------------------------------
(* Generic helpers *)

Min(a, b) == IF a < b THEN a ELSE b
Max(a, b) == IF a > b THEN a ELSE b

RECURSIVE Pow2(_)
Pow2(k) == IF k = 0 THEN 1 ELSE 2 * Pow2(k - 1)

RECURSIVE Flatten(_)
Flatten(ss) == IF ss = <<>> THEN <<>> ELSE Head(ss) \o Flatten(Tail(ss))

RECURSIVE SeqsUpTo(_, _)
SeqsUpTo(S, n) ==
  IF n = 0 THEN {<<>>}
  ELSE LET shorter == SeqsUpTo(S, n - 1)
       IN  shorter \cup {Append(s, c) : s \in shorter, c \in S}

Drop(s, n) == SubSeq(s, n + 1, Len(s))
Take(s, n) == SubSeq(s, 1, n)

---------------------------------------------------------------------------
(* Character classes of the script's regular expressions *)

\* \p{L}, \p{N} and \s, as far as the texts of the model go
Letters == {"a", "b", "c", "d", "e", "f", "g", "h", "i", "j", "k", "l", "m",
            "n", "o", "p", "q", "r", "s", "t", "u", "v", "w", "x", "y", "z",
            "A", "D", "E", "F", "P", "R"}
Digits == {"0", "1", "2", "3", "4", "5", "6", "7", "8", "9"}
Whitespace == {" ", "\n", "\t"}

---------------------------------------------------------------------------
(* escapeHtml: five chained String.replace passes, '&' first *)

RECURSIVE ReplaceAll(_, _, _)
ReplaceAll(s, c, by) ==
  IF s = <<>> THEN <<>>
  ELSE (IF Head(s) = c THEN by ELSE <<Head(s)>>) \o ReplaceAll(Tail(s), c, by)

EntAmp == <<"&", "a", "m", "p", ";">>
EntLt == <<"&", "l", "t", ";">>
EntGt == <<"&", "g", "t", ";">>
EntQuot == <<"&", "q", "u", "o", "t", ";">>
EntApos == <<"&", "#", "0", "3", "9", ";">>

escapeHtml(s) ==
  ReplaceAll(ReplaceAll(ReplaceAll(ReplaceAll(ReplaceAll(s,
    "&", EntAmp), "<", EntLt), ">", EntGt), "\"", EntQuot), "'", EntApos)

---------------------------------------------------------------------------
(* bionicWrapText *)

SpanWord == "<span class=\"word\">"
SpanStrong == "<span class=\"bionic-strong\">"
SpanEnd == "</span>"
Markup == {SpanWord, SpanStrong, SpanEnd}

CoreChars == Letters \cup Digits \cup {"'"}

\* Length of the longest prefix of s whose characters are all in S (member)
\* or all outside S (~member)
RECURSIVE PrefixLen(_, _, _)
PrefixLen(s, S, member) ==
  IF s = <<>> \/ ((Head(s) \in S) # member) THEN 0
  ELSE 1 + PrefixLen(Tail(s), S, member)

\* text.split(/(\s+)/): the pieces between whitespace runs and, the pattern
\* being a capture group, the runs themselves; an empty piece stands where a
\* run begins or ends the text.
RECURSIVE split(_)
split(text) ==
  LET a == PrefixLen(text, Whitespace, FALSE)
  IN  IF a = Len(text) THEN <<text>>
      ELSE LET rest == Drop(text, a)
               w == PrefixLen(rest, Whitespace, TRUE)
           IN  <<Take(text, a), Take(rest, w)>> \o split(Drop(rest, w))

\* /^\s+$/.test(token)
IsSpaceToken(token) == token # <<>> /\ PrefixLen(token, Whitespace, TRUE) = Len(token)

(* Math.min(Math.max(ratioPercent/100, 0.05), 0.9) is the double nearest to
   c/100 for c the percentage clamped to 5..90: the division and the two
   literals are each correctly rounded, and rounding is monotone. *)
RatioLo == 5
RatioHi == 90
ClampPercent(ratioPercent) == Min(Max(ratioPercent, RatioLo), RatioHi)

RECURSIVE Pow2Mod100(_)
Pow2Mod100(k) == IF k = 0 THEN 1 ELSE (2 * Pow2Mod100(k - 1)) % 100

\* floor(log2 m) for m >= 1
RECURSIVE Log2Floor(_)
Log2Floor(m) == IF m < 2 THEN 0 ELSE 1 + Log2Floor(m \div 2)

MantissaBits == 52

(* Math.ceil(n * ratio) in IEEE-754 double arithmetic, ratio the double
   nearest to c/100.
   - n*c/100 not an integer: it lies at least 1/100 from any integer, far
     more than the rounding error, and the result is the exact ceiling.
   - n*c/100 = m an integer: with e such that 100 <= c*2^e < 200, ratio is
     round(c*2^(52+e)/100) / 2^(52+e); the fraction dropped or added by that
     rounding is r/100 with r = c*2^(52+e) mod 100 (r = 50, a tie, cannot
     happen: c*2^(52+e) is a multiple of 4).  So n*ratio = m + n*err /
     (100*2^(52+e)) exactly, err = 100-r when rounded up, -r when rounded
     down, and that product rounds to a double above m, whose ceiling is
     m+1, exactly when it exceeds m by more than half an ulp of m:
     2*n*err > 100 * 2^(floor(log2 m) + e). *)
CeilTimesRatio(n, c) ==
  IF (n * c) % 100 # 0 THEN (n * c) \div 100 + 1
  ELSE LET m == (n * c) \div 100
           e == CHOOSE x \in 1..7 : 100 <= c * Pow2(x) /\ c * Pow2(x) < 200
           r == (c * Pow2Mod100(MantissaBits + e)) % 100
           err == IF r > 50 THEN 100 - r ELSE 0 - r
       IN  IF 2 * n * err > 100 * Pow2(Log2Floor(m) + e) THEN m + 1 ELSE m

\* const k = Math.max(1, Math.ceil(n * ratio));
BoldLen(n, ratioPercent) ==
  Max(1, CeilTimesRatio(n, ClampPercent(ratioPercent)))

\* The callback of .map(): one token of the split to its HTML
WrapToken(token, ratioPercent) ==
  IF IsSpaceToken(token) THEN token
  ELSE LET n == PrefixLen(token, CoreChars, TRUE)     \* m[1].length
       IN  IF n = 0 THEN escapeHtml(token)       \* no match
           ELSE LET core == Take(token, n)
                    rest == Drop(token, n)
                    k == BoldLen(n, ratioPercent)
                    first == escapeHtml(Take(core, Min(k, n)))
                    last == escapeHtml(Drop(core, Min(k, n)))
                IN  <<SpanWord, SpanStrong>> \o first \o <<SpanEnd>>
                      \o last \o escapeHtml(rest) \o <<SpanEnd>>

bionicWrapText(text, ratioPercent) ==
  LET tokens == split(text)
  IN  Flatten([i \in 1..Len(tokens) |-> WrapToken(tokens[i], ratioPercent)])

---------------------------------------------------------------------------
(* The template (TEMPLATE, rendered by Jinja with autoescaping) and the
   browser's reading of it *)

\* markupsafe.escape, applied by {{ ... }}
JinjaAmp == <<"&", "a", "m", "p", ";">>
JinjaLt == <<"&", "l", "t", ";">>
JinjaGt == <<"&", "g", "t", ";">>
JinjaQuot == <<"&", "#", "3", "4", ";">>
JinjaApos == <<"&", "#", "3", "9", ";">>

JinjaEscape(s) ==
  ReplaceAll(ReplaceAll(ReplaceAll(ReplaceAll(ReplaceAll(s,
    "&", JinjaAmp), ">", JinjaGt), "<", JinjaLt), "'", JinjaApos), "\"", JinjaQuot)

\* {% if raw_text %}<pre id="embeddedRaw" data-fname="{{ filename }}" ...>
\* {{ raw_text }}</pre>{% endif %}: None and '' are both false, and <<>> stands
\* for both.  flashed: the flashed messages the page displays; TEMPLATE has
\* no get_flashed_messages() block, so none whatever the session holds.
RenderTemplate(raw, fname) ==
  IF raw = <<>>
  THEN [embedded |-> FALSE, pre |-> <<>>, fname |-> <<>>, flashed |-> <<>>]
  ELSE [embedded |-> TRUE, pre |-> JinjaEscape(raw),
        fname |-> JinjaEscape(fname), flashed |-> <<>>]

\* The character references an HTML parser resolves, as far as the escaping
\* functions of the program produce them
CharRefs == {<<EntAmp, "&">>, <<EntLt, "<">>, <<EntGt, ">">>,
             <<EntQuot, "\"">>, <<EntApos, "'">>,
             <<JinjaQuot, "\"">>, <<JinjaApos, "'">>}

StartsWith(s, pre) == Len(s) >= Len(pre) /\ Take(s, Len(pre)) = pre

\* textContent / getAttribute of parsed HTML: character references resolved,
\* once, left to right
RECURSIVE HtmlDecode(_)
HtmlDecode(s) ==
  IF s = <<>> THEN <<>>
  ELSE LET hits == {r \in CharRefs : StartsWith(s, r[1])}
       IN  IF hits = {} THEN <<Head(s)>> \o HtmlDecode(Tail(s))
           ELSE LET r == CHOOSE x \in hits : TRUE
                IN  <<r[2]>> \o HtmlDecode(Drop(s, Len(r[1])))

\* textContent of the parsed <pre>: the parser drops a newline that comes
\* right after the start tag, then resolves the references
PreTextContent(pre) ==
  HtmlDecode(IF pre # <<>> /\ Head(pre) = "\n" THEN Tail(pre) ELSE pre)

---------------------------------------------------------------------------
(* The script: applyStyles, updateLineHeightLabel, renderText, listeners *)

Undefined == <<"undefined">>      \* a property never assigned
PlaceholderText == "Upload a PDF to extract text here."
DefaultName == <<"U", "p", "l", "o", "a", "d", "e", "d", " ", "P", "D", "F">>
NoName == <<"N", "o", "n", "e">>

FontSizeMin == 12
FontSizeMax == 28
FontSizeDefault == 16
LineHeightMin == 12
LineHeightMax == 28
LineHeightDefault == 24
IntensityMin == 10
IntensityMax == 60
IntensityDefault == 35
LabelBase == 16
InitialLineHeightLabel == 150     \* the markup's "1.5"

(* (num / den).toFixed(2), in hundredths.  toFixed picks the n for which
   n/100 is nearest the double, the larger n on a tie.  For slider values the
   quotient's distance to a rounding boundary is 0 or at least 1/(2*den), so
   the double's own rounding never moves it across one, and a tie is a dyadic
   quotient (0.625, 0.875, ...), exact as a double. *)
toFixed2(num, den) == (200 * num + den) \div (2 * den)

\* applyStyles(): the container's inline style
AppliedStyle(fs, lh, soft) ==
  [fontSize |-> fs,
   lineHeight |-> toFixed2(lh, fs),
   color |-> IF soft THEN "var(--soft-color)" ELSE "var(--text)",
   opacity |-> IF soft THEN "0.95" ELSE "1",
   letterSpacing |-> IF soft THEN "0.2px" ELSE "0"]

\* applyStyles(): document.getElementById('lineHeightLabel').innerText
\* (updateLineHeightLabel() sets the same)
LineHeightLabelText(lh, fs) == toFixed2(lh, LabelBase)

\* renderText(): const raw = window._pdfRawText || ''
RawOrEmpty(raw) == IF raw = Undefined THEN <<>> ELSE raw

\* renderText(): const html = bionicWrapText(escapeHtml(raw), intensity)
RenderHtml(raw, intensity) == bionicWrapText(escapeHtml(raw), intensity)

\* renderText(): document.getElementById('textContainer').innerHTML = html
SetInnerHTMLAppends(old, html) == old \o html
SetInnerHTML(old, html) == html

\* renderText() with the controls at fs, lh, p, soft and _pdfRawText = raw
renderText(raw, fs, lh, p, soft) ==
  /\ bionicLabel' = p
  /\ textContainer' = SetInnerHTML(textContainer, RenderHtml(RawOrEmpty(raw), p))
  /\ style' = AppliedStyle(fs, lh, soft)
  /\ fontSizeLabel' = fs
  /\ lineHeightLabel' = LineHeightLabelText(lh, fs)

\* A document as the browser has parsed it, before any script event
FreshDocument(p) ==
  /\ page = p
  /\ loaded = FALSE
  /\ pdfRawText = Undefined
  /\ fontSize = FontSizeDefault
  /\ lineHeight = LineHeightDefault
  /\ bionicIntensity = IntensityDefault
  /\ softToggle = FALSE
  /\ textContainer = <<PlaceholderText>>
  /\ style = [fontSize |-> 0, lineHeight |-> 0, color |-> "", opacity |-> "",
              letterSpacing |-> ""]
  /\ uploadedName = NoName
  /\ fontSizeLabel = FontSizeDefault
  /\ lineHeightLabel = InitialLineHeightLabel
  /\ bionicLabel = IntensityDefault

\* No document open (the browser part is idle)
NoDocument == FreshDocument(RenderTemplate(<<>>, <<>>))

\* window.addEventListener('DOMContentLoaded', ...), once per document
DOMContentLoaded ==
  /\ response.status = 200
  /\ ~loaded
  /\ loaded' = TRUE
  /\ IF page.embedded
     THEN LET content == PreTextContent(page.pre)   \* embedded.textContent || ''
              attr == HtmlDecode(page.fname)        \* getAttribute('data-fname')
          IN  /\ pdfRawText' = content
              /\ uploadedName' = IF attr = <<>> THEN DefaultName ELSE attr
              /\ renderText(content, fontSize, lineHeight, bionicIntensity,
                            softToggle)
     ELSE UNCHANGED domVars
  /\ UNCHANGED <<page, controlVars, fmtVars, serverVars, tplVars>>

\* The 'input' listeners of the four controls: each calls renderText(); the
\* line-height slider's oninput attribute calls updateLineHeightLabel()
\* first, and renderText() then sets the same label again.
InputFontSize(v) ==
  /\ loaded /\ v # fontSize
  /\ fontSize' = v
  /\ renderText(pdfRawText, v, lineHeight, bionicIntensity, softToggle)
  /\ UNCHANGED <<page, loaded, pdfRawText, uploadedName, lineHeight,
                 bionicIntensity, softToggle, fmtVars, serverVars, tplVars>>

InputLineHeight(v) ==
  /\ loaded /\ v # lineHeight
  /\ lineHeight' = v
  /\ renderText(pdfRawText, fontSize, v, bionicIntensity, softToggle)
  /\ UNCHANGED <<page, loaded, pdfRawText, uploadedName, fontSize,
                 bionicIntensity, softToggle, fmtVars, serverVars, tplVars>>

InputIntensity(v) ==
  /\ loaded /\ v # bionicIntensity
  /\ bionicIntensity' = v
  /\ renderText(pdfRawText, fontSize, lineHeight, v, softToggle)
  /\ UNCHANGED <<page, loaded, pdfRawText, uploadedName, fontSize,
                 lineHeight, softToggle, fmtVars, serverVars, tplVars>>

InputSoftToggle ==
  /\ loaded
  /\ softToggle' = ~softToggle
  /\ renderText(pdfRawText, fontSize, lineHeight, bionicIntensity, ~softToggle)
  /\ UNCHANGED <<page, loaded, pdfRawText, uploadedName, fontSize,
                 lineHeight, bionicIntensity, fmtVars, serverVars, tplVars>>

---------------------------------------------------------------------------
(* The server: allowed_file, secure_filename, index, upload_file *)

UPLOAD_FOLDER == <<"u", "p", "l", "o", "a", "d", "s">>
ALLOWED_EXTENSIONS == {<<"p", "d", "f">>}

\* Characters outside ASCII, each one element of a text
EAcute == "U+00E9"               \* NFKD: "e" followed by CombiningAcute
CombiningAcute == "U+0301"
Zhe == "U+0436"                  \* NFKD: itself
NonAscii == {EAcute, CombiningAcute, Zhe}

\* str.lower(), character by character
ToLower(c) ==
  CASE c = "A" -> "a" [] c = "D" -> "d" [] c = "E" -> "e" [] c = "F" -> "f"
    [] c = "P" -> "p" [] c = "R" -> "r" [] OTHER -> c
Lower(s) == [i \in 1..Len(s) |-> ToLower(s[i])]

Contains(s, c) == \E i \in 1..Len(s) : s[i] = c

\* filename.rsplit('.', 1)[1], for a filename that holds a '.'
RECURSIVE AfterLastDot(_)
AfterLastDot(s) ==
  IF s[Len(s)] = "." THEN <<>>
  ELSE Append(AfterLastDot(Take(s, Len(s) - 1)), s[Len(s)])

allowed_file_case_sensitive(name) ==
  Contains(name, ".") /\ AfterLastDot(name) \in ALLOWED_EXTENSIONS

allowed_file(name) ==
  Contains(name, ".") /\ Lower(AfterLastDot(name)) \in ALLOWED_EXTENSIONS

\* str.split(): the runs of non-whitespace characters
RECURSIVE Words(_)
Words(s) ==
  LET w == PrefixLen(s, Whitespace, TRUE)
      rest == Drop(s, w)
      n == PrefixLen(rest, Whitespace, FALSE)
  IN  IF n = 0 THEN <<>> ELSE <<Take(rest, n)>> \o Words(Drop(rest, n))

\* sep.join(parts)
RECURSIVE Join(_, _)
Join(parts, sep) ==
  IF parts = <<>> THEN <<>>
  ELSE IF Len(parts) = 1 THEN Head(parts)
  ELSE Head(parts) \o sep \o Join(Tail(parts), sep)

\* str.strip(chars)
RECURSIVE RStrip(_, _)
RStrip(s, chars) ==
  IF s # <<>> /\ s[Len(s)] \in chars THEN RStrip(Take(s, Len(s) - 1), chars)
  ELSE s
Strip(s, chars) == RStrip(Drop(s, PrefixLen(s, chars, TRUE)), chars)

\* unicodedata.normalize("NFKD", filename)
Nfkd(s) ==
  Flatten([i \in 1..Len(s) |->
             IF s[i] = EAcute THEN <<"e", CombiningAcute>> ELSE <<s[i]>>])

\* [A-Za-z0-9_.-], the complement of _filename_ascii_strip_re
FilenameChars == Letters \cup Digits \cup {"_", ".", "-"}

(* werkzeug.utils.secure_filename on a POSIX host (os.sep = "/", no altsep,
   no Windows device names): NFKD-normalise and drop what is not ASCII,
   turn each "/" into a space, join the whitespace-separated words with "_",
   drop every character outside [A-Za-z0-9_.-], strip "." and "_" from both
   ends. *)
secure_filename(name) ==
  LET ascii == SelectSeq(Nfkd(name), LAMBDA c : c \notin NonAscii)
      spaced == ReplaceAll(ascii, "/", <<" ">>)
      joined == Join(Words(spaced), <<"_">>)
      kept == SelectSeq(joined, LAMBDA c : c \in FilenameChars)
  IN  Strip(kept, {".", "_"})

\* upload_file(): fname = secure_filename(file.filename)
StorageNameUnsanitized(name) == name
StorageName(name) == secure_filename(name)

\* os.path.join(a, b) on POSIX
PathJoin(a, b) ==
  IF b # <<>> /\ Head(b) = "/" THEN b
  ELSE IF a # <<>> /\ a[Len(a)] = "/" THEN a \o b
  ELSE a \o <<"/">> \o b

\* s.split(sep)
RECURSIVE SplitOn(_, _)
SplitOn(s, sep) ==
  LET n == PrefixLen(s, {sep}, FALSE)
  IN  IF n = Len(s) THEN <<s>>
      ELSE <<Take(s, n)>> \o SplitOn(Drop(s, n + 1), sep)

Root == <<"/">>
DotDot == <<".", ".">>

\* The file a path names, as the operating system resolves it from the
\* working directory: "" and "." segments vanish, ".." leaves a directory.
RECURSIVE Walk(_, _)
Walk(segs, at) ==
  IF segs = <<>> THEN at
  ELSE LET g == Head(segs)
           next == IF g = <<>> \/ g = <<".">> THEN at
                   ELSE IF g # DotDot THEN Append(at, g)
                   ELSE IF at = <<>> \/ at[Len(at)] = DotDot THEN Append(at, g)
                   ELSE IF at = <<Root>> THEN at
                   ELSE Take(at, Len(at) - 1)
       IN  Walk(Tail(segs), next)
Resolve(path) ==
  Walk(SplitOn(path, "/"),
       IF path # <<>> /\ Head(path) = "/" THEN <<Root>> ELSE <<>>)

\* file.save(path): the file at path now holds the uploaded content
Save(fs, path, content) ==
  LET at == Resolve(path)
  IN  [f \in DOMAIN fs \cup {at} |-> IF f = at THEN content ELSE fs[f]]

ErrPrefix == <<"[", "E", "r", "r", "o", "r", " ", "e", "x", "t", "r", "a", "c",
               "t", "i", "n", "g", " ", "t", "e", "x", "t", ":", " ">>
\* f"[Error extracting text: {e}]"
ErrorText(e) == ErrPrefix \o e \o <<"]">>

PageBreak == <<"\n", "\n">>

\* doc = fitz.open(path); for page in doc: txt = page.get_text("text");
\* if txt: all_text.append(txt) -- up to the first exception, if any:
\* [raised, err: the exception's message, all_text: the list at that point]
RECURSIVE ReadPages(_, _)
ReadPages(pages, all_text) ==
  IF pages = <<>> THEN [raised |-> FALSE, err |-> <<>>, all_text |-> all_text]
  ELSE LET pg == Head(pages)
       IN  IF pg.raises
           THEN [raised |-> TRUE, err |-> pg.text, all_text |-> all_text]
           ELSE ReadPages(Tail(pages),
                          IF pg.text # <<>> THEN Append(all_text, pg.text)
                          ELSE all_text)
OpenAndRead(doc) ==
  IF ~doc.opens THEN [raised |-> TRUE, err |-> doc.err, all_text |-> <<>>]
  ELSE ReadPages(doc.pages, <<>>)

ExtractTextKeepsPages(doc) ==
  LET r == OpenAndRead(doc)
  IN  IF r.raised THEN Join(r.all_text, PageBreak) \o ErrorText(r.err)
      ELSE Join(r.all_text, PageBreak)

\* The try/except of upload_file() on the content stored at path:
\* raw = "\n\n".join(all_text), or the placeholder when anything raised
ExtractText(doc) ==
  LET r == OpenAndRead(doc)
  IN  IF r.raised THEN ErrorText(r.err) ELSE Join(r.all_text, PageBreak)

SampleName == <<"a", ".", "p", "d", "f">>

MsgNoFilePart == "No file part"
MsgNoSelectedFile == "No selected file"
MsgInvalidType == "Invalid file type"

IndexUrl == <<"/">>               \* url_for('index')
NoDoc == [opens |-> FALSE, err |-> <<>>, pages |-> <<>>]
NoRequest ==
  [kind |-> "none", hasFile |-> FALSE, filename |-> <<>>, doc |-> NoDoc,
   before |-> <<>>, follows |-> ""]

\* The page of a 200 response replaces the document in the browser
OpenDocument(p) ==
  /\ page' = p
  /\ loaded' = FALSE
  /\ pdfRawText' = Undefined
  /\ fontSize' = FontSizeDefault
  /\ lineHeight' = LineHeightDefault
  /\ bionicIntensity' = IntensityDefault
  /\ softToggle' = FALSE
  /\ textContainer' = <<PlaceholderText>>
  /\ style' = [fontSize |-> 0, lineHeight |-> 0, color |-> "", opacity |-> "",
               letterSpacing |-> ""]
  /\ uploadedName' = NoName
  /\ fontSizeLabel' = FontSizeDefault
  /\ lineHeightLabel' = InitialLineHeightLabel
  /\ bionicLabel' = IntensityDefault

\* flash(msg); return redirect(url_for('index'))
Reject(msg) ==
  /\ flashes' = Append(flashes, msg)
  /\ response' = [status |-> 302, location |-> IndexUrl]
  /\ UNCHANGED <<files, tplVars, clientVars>>

MaxUploads == 1

\* POST /upload
upload_file(req) ==
  /\ nUploads < MaxUploads
  /\ nUploads' = nUploads + 1
  /\ handled' = [kind |-> "post", hasFile |-> req.hasFile,
                 filename |-> req.filename, doc |-> req.doc,
                 before |-> files, follows |-> ""]
  /\ IF ~req.hasFile THEN Reject(MsgNoFilePart)
     ELSE IF req.filename = <<>> THEN Reject(MsgNoSelectedFile)
     ELSE IF allowed_file(req.filename)
     THEN LET fname == StorageName(req.filename)
              path == PathJoin(UPLOAD_FOLDER, fname)
              saved == Save(files, path, req.doc)
              raw == ExtractText(saved[Resolve(path)])
          IN  /\ files' = saved
              /\ raw_text' = raw
              /\ filename' = fname
              /\ response' = [status |-> 200, location |-> <<>>]
              /\ OpenDocument(RenderTemplate(raw, fname))
              /\ UNCHANGED flashes
     ELSE Reject(MsgInvalidType)
  /\ UNCHANGED fmtVars

\* GET /: the browser following a redirect, or any other visit
index ==
  /\ handled' = [NoRequest EXCEPT !.kind = "get",
                   !.follows = IF response.status = 302
                               THEN flashes[Len(flashes)] ELSE ""]
  /\ raw_text' = <<>>
  /\ filename' = <<>>
  /\ response' = [status |-> 200, location |-> <<>>]
  /\ OpenDocument(RenderTemplate(<<>>, <<>>))
  /\ UNCHANGED <<files, flashes, nUploads, fmtVars>>

ServerIdle ==
  /\ files = <<>>
  /\ flashes = <<>>
  /\ response = [status |-> 0, location |-> <<>>]
  /\ handled = NoRequest
  /\ nUploads = 0

---------------------------------------------------------------------------
(* SpecFormat: bionicWrapText as a function of its two arguments *)

MaxLen == 3
MaxWord == 25

TextAlphabet == {"a", "'", "&", "<", " ", "!"}
ShortTexts == SeqsUpTo(TextAlphabet, MaxLen)
\* one long word, alone or followed by punctuation and a second word
LongWords ==
  UNION {{[i \in 1..n |-> "a"],
          [i \in 1..n |-> "a"] \o <<"!", " ", "a", "b">>} : n \in 1..MaxWord}
FormatTexts == ShortTexts \cup LongWords
FormatPercents == {0 - 20, 0, 4, 5, 6, 10, 14, 28, 35, 50, 56, 60, 89, 90, 91, 100, 250}

InitFormat ==
  /\ fmtText \in FormatTexts
  /\ fmtPercent \in FormatPercents
  /\ fmtOut = <<>>
  /\ fmtPc = "init"
  /\ ServerIdle
  /\ raw_text = <<>> /\ filename = <<>>
  /\ NoDocument

Format ==
  /\ fmtPc = "init"
  /\ fmtOut' = bionicWrapText(fmtText, fmtPercent)
  /\ fmtPc' = "done"
  /\ UNCHANGED <<fmtText, fmtPercent, serverVars, tplVars, clientVars>>

NextFormat == Format

SpecFormat == InitFormat /\ [][NextFormat]_vars

---------------------------------------------------------------------------
(* SpecClient: a page the server rendered, then the script's events *)

\* extracted texts, some of them starting with a newline
ClientTexts ==
  SeqsUpTo(TextAlphabet, MaxLen) \cup
  {<<"\n">> \o t : t \in SeqsUpTo({"a", "&", " "}, MaxLen - 1)}
FontSizes == {FontSizeMin, FontSizeDefault, FontSizeMax}
LineHeights == {LineHeightMin, 14, LineHeightDefault, LineHeightMax}
Intensities == {IntensityMin, IntensityDefault, IntensityMax}

FormatIdle ==
  fmtText = <<>> /\ fmtPercent = 0 /\ fmtOut = <<>> /\ fmtPc = "idle"

\* upload_file() has just answered 200 with the page of some extracted text,
\* or index() with the empty page
InitClient ==
  /\ FormatIdle
  /\ files = <<>> /\ flashes = <<>> /\ handled = NoRequest /\ nUploads = 0
  /\ response = [status |-> 200, location |-> <<>>]
  /\ raw_text \in ClientTexts
  /\ filename = SampleName
  /\ FreshDocument(RenderTemplate(raw_text, filename))

NextClient ==
  \/ DOMContentLoaded
  \/ \E v \in FontSizes : InputFontSize(v)
  \/ \E v \in LineHeights : InputLineHeight(v)
  \/ \E v \in Intensities : InputIntensity(v)
  \/ InputSoftToggle

SpecClient == InitClient /\ [][NextClient]_vars

---------------------------------------------------------------------------
(* Reading the script's HTML back *)

\* The HTML without the markup tokens the formatter added
StripMarkup(html) == SelectSeq(html, LAMBDA x : x \notin Markup)

\* The text a browser shows for the HTML: markup dropped, references resolved
VisibleText(html) == HtmlDecode(StripMarkup(html))

\* The contents of the bionic-strong spans, in order
RECURSIVE BoldRuns(_)
BoldRuns(html) ==
  IF html = <<>> THEN <<>>
  ELSE IF Head(html) = SpanStrong
       THEN LET n == PrefixLen(Tail(html), {SpanEnd}, FALSE)
            IN  <<Take(Tail(html), n)>> \o BoldRuns(Drop(Tail(html), n))
       ELSE BoldRuns(Tail(html))

\* The core lengths of the text's non-whitespace tokens that have a core
CoreLens(text) ==
  LET tokens == split(text)
      ns == [i \in 1..Len(tokens) |-> PrefixLen(tokens[i], CoreChars, TRUE)]
  IN  SelectSeq(ns, LAMBDA n : n >= 1)

\* Each character's entity, one pass over the text
EntityOf(c) ==
  CASE c = "&" -> EntAmp
    [] c = "<" -> EntLt
    [] c = ">" -> EntGt
    [] c = "\"" -> EntQuot
    [] c = "'" -> EntApos
    [] OTHER -> <<c>>
EscapedOnce(text) == Flatten([i \in 1..Len(text) |-> EntityOf(text[i])])

\* k = max(1, ceil(n * c / 100)), stated without computing it
IsBoldLen(k, n, c) ==
  /\ k >= 1
  /\ 100 * k >= n * c
  /\ k = 1 \/ 100 * (k - 1) < n * c

\* h hundredths is num/den rounded to two decimals (half up)
IsRatio2(h, num, den) ==
  /\ 2 * (100 * num - h * den) < den
  /\ 2 * (h * den - 100 * num) <= den

Rendered == loaded /\ page.embedded

---------------------------------------------------------------------------
(* Claims about the script *)

\* C1: the HTML the render pass puts into the text container carries every
\* HTML-unsafe character of the raw text as its entity, escaped exactly once
\* (no character unescaped, none escaped twice).
C1_EscapedExactlyOnce ==
  Rendered => StripMarkup(textContainer) = EscapedOnce(pdfRawText)

\* C2: for every non-whitespace token with a core of n >= 1 characters and
\* every integer intensity p, the bolded prefix has k = max(1, ceil(n * r))
\* characters, r = min(max(p, 5), 90) / 100, and 1 <= k <= n.
C2_BoldPrefixLength ==
  fmtPc = "done" =>
    LET ks == BoldRuns(fmtOut)
        ns == CoreLens(fmtText)
        c == IF fmtPercent < 5 THEN 5 ELSE IF fmtPercent > 90 THEN 90
             ELSE fmtPercent
    IN  /\ Len(ks) = Len(ns)
        /\ \A i \in 1..Len(ks) :
             LET k == Len(HtmlDecode(ks[i]))
             IN  IsBoldLen(k, ns[i], c) /\ 1 <= k /\ k <= ns[i]

\* C3: removing the added markup from the rendered HTML and decoding the
\* entities yields exactly the original text.
C3_MarkupAdditiveLossless ==
  Rendered => VisibleText(textContainer) = pdfRawText

\* C9: after any control changes, the line-height applied to the text
\* container and the line-height shown in the label both equal
\* line-height-px / font-size-px for the current font size, to two decimals.
C9_LineHeightRatio ==
  Rendered =>
    /\ IsRatio2(style.lineHeight, lineHeight, fontSize)
    /\ IsRatio2(lineHeightLabel, lineHeight, fontSize)

---------------------------------------------------------------------------
(* SpecServer: requests to the server and the browser loading its pages *)

MaxStem == 2
MaxPages == 2

FilenameAlphabet == {"a", ".", "/"}
Suffixes == {<<>>, <<".", "p", "d", "f">>, <<".", "P", "D", "F">>,
             <<".", "P", "d", "f">>, <<".", "t", "x", "t">>, <<"p", "d", "f">>}
TraversalName == <<".", ".", "/", ".", ".", "/", "e", "t", "c", "/",
                   "p", "a", "s", "s", "w", "d", ".", "p", "d", "f">>
SpecialNames ==
  {TraversalName,
   <<".", ".", "\\", "a", ".", "p", "d", "f">>,
   <<"a", " ", "b", ".", "p", "d", "f">>,
   <<EAcute, ".", "p", "d", "f">>,
   <<Zhe, ".", "p", "d", "f">>,
   <<"a", ".", "p", "d", "f", ".", "t", "x", "t">>,
   <<"a", ".", "p", "d", "f", "/">>}
Filenames ==
  {st \o su : st \in SeqsUpTo(FilenameAlphabet, MaxStem), su \in Suffixes}
    \cup SpecialNames

PageResults ==
  {[raises |-> FALSE, text |-> <<>>],
   [raises |-> FALSE, text |-> <<"a", "&", "'">>],
   [raises |-> TRUE, text |-> <<"b", "a", "d">>]}
Docs ==
  {[opens |-> FALSE, err |-> <<"n", "o">>, pages |-> <<>>]} \cup
  {[opens |-> TRUE, err |-> <<>>, pages |-> ps] :
     ps \in SeqsUpTo(PageResults, MaxPages)}
SampleDoc ==
  [opens |-> TRUE, err |-> <<>>,
   pages |-> <<[raises |-> FALSE, text |-> <<"a", "&", "'">>]>>]

\* Every filename with the sample content, every content under the sample name
Requests ==
  {[hasFile |-> FALSE, filename |-> <<>>, doc |-> NoDoc]} \cup
  {[hasFile |-> TRUE, filename |-> f, doc |-> d] :
     <<f, d>> \in (Filenames \X {SampleDoc}) \cup ({SampleName} \X Docs)}

\* The upload directory as the server finds it: empty, or holding a file
InitialDirs ==
  {<<>>, [f \in {<<UPLOAD_FOLDER, SampleName>>} |-> NoDoc]}

InitServer ==
  /\ FormatIdle
  /\ files \in InitialDirs
  /\ flashes = <<>>
  /\ response = [status |-> 0, location |-> <<>>]
  /\ handled = NoRequest
  /\ nUploads = 0
  /\ raw_text = <<>> /\ filename = <<>>
  /\ NoDocument

NextServer ==
  \/ \E req \in Requests : upload_file(req)
  \/ index
  \/ DOMContentLoaded

SpecServer == InitServer /\ [][NextServer]_vars

---------------------------------------------------------------------------
(* Claims about the server *)

\* The filename's last four characters are ".pdf" in some letter case
EndsWithDotPdf(name) ==
  /\ Len(name) >= 4
  /\ name[Len(name) - 3] = "."
  /\ name[Len(name) - 2] \in {"p", "P"}
  /\ name[Len(name) - 1] \in {"d", "D"}
  /\ name[Len(name)] \in {"f", "F"}

\* The last request was an upload with a file field and a .pdf filename
PdfUploaded ==
  handled.kind = "post" /\ handled.hasFile /\ EndsWithDotPdf(handled.filename)

\* Opening the content or reading one of its pages raises
DocRaises(doc) ==
  ~doc.opens \/ \E i \in 1..Len(doc.pages) : doc.pages[i].raises
FirstError(doc) ==
  IF ~doc.opens THEN doc.err
  ELSE LET i == CHOOSE j \in 1..Len(doc.pages) :
                  /\ doc.pages[j].raises
                  /\ \A h \in 1..(j - 1) : ~doc.pages[h].raises
       IN  doc.pages[i].text

\* C4: an upload with no file field, an empty filename or a filename not
\* ending in ".pdf" (any letter case) is answered with a redirect to "/" and
\* leaves every stored file as it was; a filename ending in ".pdf" in any
\* letter case is accepted.
C4_InvalidUploadRejected ==
  handled.kind = "post" =>
    IF PdfUploaded THEN response.status = 200
    ELSE /\ response = [status |-> 302, location |-> <<"/">>]
         /\ files = handled.before

C4_Witness ==
  /\ handled.kind = "post" /\ handled.hasFile
  /\ Len(handled.filename) > 4
  /\ SubSeq(handled.filename, Len(handled.filename) - 3,
            Len(handled.filename)) = <<".", "t", "x", "t">>
  /\ DOMAIN handled.before # {}
  /\ response.status = 302

\* C5: the page rendered for the redirect that follows a rejected upload
\* shows the rejection message.
C5_RejectionMessageShown ==
  (handled.kind = "get" /\ handled.follows # "") =>
    \E i \in 1..Len(page.flashed) : page.flashed[i] = handled.follows

\* C6: for every accepted upload the name used for storage is non-empty,
\* holds no path separator and is not "." or "..", and the content is
\* written to the file of that name directly inside the upload directory
\* and nowhere else.
C6_StoredInsideUploadFolder ==
  PdfUploaded =>
    LET at == <<UPLOAD_FOLDER, filename>>
    IN  /\ filename # <<>>
        /\ \A i \in 1..Len(filename) : filename[i] \notin {"/", "\\"}
        /\ filename \notin {<<".">>, <<".", ".">>}
        /\ DOMAIN files = DOMAIN handled.before \cup {at}
        /\ files[at] = handled.doc
        /\ \A f \in DOMAIN handled.before \ {at} : files[f] = handled.before[f]

C6_Witness ==
  /\ PdfUploaded
  /\ SubSeq(handled.filename, 1, 3) = <<".", ".", "/">>
  /\ <<UPLOAD_FOLDER, filename>> \in DOMAIN files

\* C7: an accepted upload whose extraction raises still gets a 200 page, and
\* the text embedded in it is exactly "[Error extracting text: <details>]",
\* with none of the text of the pages read before the failure.
C7_ExtractionFailureIsPlaceholder ==
  (PdfUploaded /\ DocRaises(handled.doc)) =>
    /\ response.status = 200
    /\ page.embedded
    /\ PreTextContent(page.pre) =
         <<"[", "E", "r", "r", "o", "r", " ", "e", "x", "t", "r", "a", "c", "t",
           "i", "n", "g", " ", "t", "e", "x", "t", ":", " ">>
           \o FirstError(handled.doc) \o <<"]">>

C7_Witness ==
  /\ PdfUploaded
  /\ handled.doc.opens
  /\ Len(handled.doc.pages) = 2
  /\ ~handled.doc.pages[1].raises /\ handled.doc.pages[1].text # <<>>
  /\ handled.doc.pages[2].raises
  /\ response.status = 200
  /\ loaded

\* C8: every accepted upload yields a page that holds the hidden element with
\* the extracted text, tagged with the sanitized filename, and after load
\* shows that filename as the uploaded file, whatever the extraction result.
C8_AcceptedUploadShowsFile ==
  (PdfUploaded /\ loaded) =>
    /\ page.embedded
    /\ PreTextContent(page.pre) = raw_text
    /\ HtmlDecode(page.fname) = filename
    /\ uploadedName = filename

=============================================================================
